---- MODULE Spec2Model ----
(***************************************************************************)
(* Model of the segment store of datastore/db.go: segments on disk, the    *)
(* global index, put with rollover, background compaction, recovery and    *)
(* close.  Files are byte sequences; a file handle carries its open mode   *)
(* and its position, so that an append-mode write and a positional write   *)
(* differ as they do on the file system.                                   *)
(***************************************************************************)
EXTENDS Integers, Sequences, FiniteSets, TLC

\* ---------------------------------------------------------------- bounds
MaxPuts == 3
MaxOpens == 2
MaxCloseCalls == 2
MaxIOErrors == 1

\* keys and values are strings (byte sequences) of length one; the n-th Put
\* of a run writes the value <<6 + n>>, so no value is put twice
Keys == {<<1>>, <<2>>}
ValueOf(n) == <<6 + n>>
\* the maxSize arguments tried by OpenWithMaxSize: one, two, many records
MaxSizes == {5, 10, 40}

\* ------------------------------------------------------------ file names
\* paths are numbered: current-data is -1, merge-temp is -2, segment-<id>
\* is id
outFileName == -1
tempPath == -2
segmentPrefix(id) == id

\* ------------------------------------------------------------ record codec
\* entry.Encode: total length, key length, key, value length, value
Encode(key, value) ==
  <<Len(key) + Len(value) + 3, Len(key)>> \o key \o <<Len(value)>> \o value

\* entry.DecodeFromReader at byte offset off of a file's content: one
\* record and the bytes consumed, io.EOF at a clean end of stream, an error
\* for anything else
DecodeFromReader(bytes, off) ==
  LET bad == [err |-> "corrupt", key |-> <<>>, value |-> <<>>, n |-> 0]
      rest == Len(bytes) - off
  IN IF rest <= 0
       THEN [err |-> "EOF", key |-> <<>>, value |-> <<>>, n |-> 0]
     ELSE LET size == bytes[off + 1] IN
       IF size < 3 \/ size > rest THEN bad
       ELSE LET kl == bytes[off + 2] IN
         IF kl < 0 \/ kl + 3 > size THEN bad
         ELSE LET vl == bytes[off + 3 + kl] IN
           IF kl + vl + 3 # size THEN bad
           ELSE [err |-> "nil",
                 key |-> SubSeq(bytes, off + 3, off + 2 + kl),
                 value |-> SubSeq(bytes, off + 4 + kl, off + size),
                 n |-> size]

\* ------------------------------------------------------------ file system
\* os.OpenFile: a handle on path; O_APPEND handles write at the end of the
\* file, the others at their own position, which starts at 0
OpenFile(path, append) ==
  [path |-> path, append |-> append, pos |-> 0, closed |-> FALSE]

\* O_CREATE: the file exists afterwards, its content is kept
Create(dsk, path) ==
  IF path \in DOMAIN dsk THEN dsk
  ELSE [p \in DOMAIN dsk \cup {path} |-> IF p = path THEN <<>> ELSE dsk[p]]

\* bytes [1..at] of old, then data, then what old had beyond the written
\* range
Overwrite(old, at, data) ==
  LET pad == IF at <= Len(old) THEN SubSeq(old, 1, at)
             ELSE old \o [i \in 1..(at - Len(old)) |-> 0]
      tail == IF at + Len(data) < Len(old)
                THEN SubSeq(old, at + Len(data) + 1, Len(old)) ELSE <<>>
  IN pad \o data \o tail

\* the position at which (*os.File).Write puts its first byte
WritePos(dsk, h) == IF h.append THEN Len(dsk[h.path]) ELSE h.pos

\* (*os.File).Write: the file content after writing data through handle h
FileWrite(dsk, h, data) ==
  [dsk EXCEPT ![h.path] = Overwrite(@, WritePos(dsk, h), data)]

\* the handle after the write: the position moves to the end of the data
Advance(dsk, h, data) ==
  [h EXCEPT !.pos = WritePos(dsk, h) + Len(data)]

\* f with key k set to v (Go map assignment)
MapPut(f, k, v) ==
  [x \in DOMAIN f \cup {k} |-> IF x = k THEN v ELSE f[x]]

EmptyMap == [x \in {} |-> 0]

\* ------------------------------------------------------------------ state
VARIABLES
  disk,        \* the directory: path -> file content
  segments,    \* db.segments: sequence of segment structs
  out,         \* db.out: position of the write target in segments, 0 = nil
  index,       \* db.index: key -> segmentLocation
  maxSize,     \* db.maxSize
  nextSegID,   \* db.nextSegID
  closeOnce,   \* db.closeOnce has run
  writerDone,  \* db.writerDone: "open" or "closed"
  workerPool,  \* db.workerPool: "open" or "closed"
  panicked,    \* a close of a closed channel has panicked
  mergeHung,   \* mergeSegments spins in its record loop, holding writeMutex
  mergePending,\* go db.mergeSegments() goroutines not yet run
  lastPut,     \* history: key -> value of the last successful Put, or <<>>
  putCount,    \* history: key -> number of successful Puts
  opens,       \* history: number of Open calls on the directory
  closeCalls,  \* history: Close calls on the current Db
  ioErrors,    \* history: operations that met an I/O error or a crash
  op,          \* history: the operation that produced this state
  writeMutex,  \* db.writeMutex: "free" or the goroutine that holds it
  mu,          \* db.mu: "free" or the goroutine that holds it for writing
  pc,          \* goroutine -> the statement it is at
  req,         \* the writeRequest the writer goroutine has received
  gets,        \* caller of Get -> where it is in Get and what it holds
  pool,        \* the workerRequests in the buffer of db.workerPool
  work,        \* worker goroutine -> the workerRequest it has received
  written,     \* history: key -> values of the Puts the writer received
  lb           \* the load balancer: serversPool and its request handlers

vars == <<disk, segments, out, index, maxSize, nextSegID, closeOnce,
          writerDone, workerPool, panicked, mergeHung, mergePending,
          lastPut, putCount, opens, closeCalls, ioErrors, op,
          writeMutex, mu, pc, req, gets, pool, work, written, lb>>

\* the goroutines: the writer, a caller of Close, and two of the
\* goroutines doPut starts for mergeSegments
Mergers == {"merge1", "merge2"}
Goroutines == {"writer", "close"} \cup Mergers

\* no goroutine is inside an operation
Idle == [g \in Goroutines |-> IF g = "writer" THEN "select" ELSE "idle"]
NoReq == [key |-> <<>>, value |-> <<>>]

\* the variables that only the specification with single statements as
\* steps changes
stmtVars == <<writeMutex, mu, pc, req, gets, pool, work, written, lb>>

\* the callers of Get and the goroutines OpenWithMaxSize starts for
\* db.worker; workerPoolSize is 10 in the source and is both the number of
\* workers and the capacity of the channel
Getters == {"get1", "get2", "get3"}
workerPoolSize == 1
Workers == 1..workerPoolSize

NoLoc == [segID |-> -1, offset |-> 0]
NoResp == [err |-> "none", value |-> <<>>]
NoGet == [pc |-> "idle", key |-> <<>>, loc |-> NoLoc, filePath |-> 0,
          floor |-> <<>>, responses |-> 0, result |-> NoResp]
NoWork == [getter |-> "none", filePath |-> 0, offset |-> 0]
Exited == [getter |-> "exited", filePath |-> 0, offset |-> 0]

\* the variables of the read path
readVars == <<gets, pool, work, written, lb>>

\* the fields of Db that recover, createNewSegment and doPut work on
Db == [segments |-> segments, out |-> out, index |-> index,
       nextSegID |-> nextSegID]

NewSegment(id, file, path, size) ==
  [id |-> id, file |-> file, filePath |-> path, size |-> size,
   index |-> EmptyMap]

\* ------------------------------------------------------- createNewSegment
\* returns the Db fields and the directory after the call
createNewSegment(db, dsk) ==
  LET first == Len(db.segments) = 0
      segPath == IF first THEN outFileName ELSE segmentPrefix(db.nextSegID)
      id == IF first THEN 0 ELSE db.nextSegID
      seg == NewSegment(id, OpenFile(segPath, TRUE), segPath, 0)
  IN [db |-> [segments |-> Append(db.segments, seg),
              out |-> Len(db.segments) + 1,
              index |-> db.index,
              nextSegID |-> IF first THEN db.nextSegID ELSE db.nextSegID + 1],
      disk |-> Create(dsk, segPath)]

\* ------------------------------------------------------------------ recover
\* the index of one segment and the global index after replaying the
\* records of bytes from offset on
RECURSIVE replay(_, _, _, _, _)
replay(bytes, offset, segID, segIndex, idx) ==
  LET record == DecodeFromReader(bytes, offset) IN
  IF record.err = "EOF"
    THEN [err |-> "nil", segIndex |-> segIndex, index |-> idx]
  ELSE IF record.err # "nil"
    THEN [err |-> record.err, segIndex |-> segIndex, index |-> idx]
  ELSE replay(bytes, offset + record.n, segID,
              MapPut(segIndex, record.key, offset),
              MapPut(idx, record.key, [segID |-> segID, offset |-> offset]))

recoverSegmentIndex(seg, idx, dsk) ==
  replay(dsk[seg.filePath], 0, seg.id, seg.index, idx)

RECURSIVE SortedSeq(_)
SortedSeq(S) ==
  IF S = {} THEN <<>>
  ELSE LET m == CHOOSE x \in S : \A y \in S : x <= y
       IN <<m>> \o SortedSeq(S \ {m})

\* the id recover reads from a file name
FileID(name) == IF name = outFileName THEN 0 ELSE name

\* the files recover takes for segments, sorted by id.  current-data and
\* segment-0 both have id 0; curFirst is the order the sort leaves them in
segFiles(dsk, curFirst) ==
  LET names == DOMAIN dsk \ {tempPath}
      zero == IF outFileName \in names /\ 0 \in names
                THEN (IF curFirst THEN <<outFileName, 0>>
                      ELSE <<0, outFileName>>)
              ELSE IF outFileName \in names THEN <<outFileName>>
              ELSE IF 0 \in names THEN <<0>>
              ELSE <<>>
  IN zero \o SortedSeq({p \in names : p > 0})

\* one pass of the loop of recover: the segment seg of a file is appended
\* to db.segments, nextSegID moves past its id, and r is what
\* recoverSegmentIndex made of the file
appendRecovered(db, seg, r) ==
  [err |-> r.err,
   db |-> [segments |-> Append(db.segments,
                               [seg EXCEPT !.index = r.segIndex]),
           out |-> db.out,
           index |-> r.index,
           nextSegID |-> IF seg.id >= db.nextSegID
                           THEN seg.id + 1 ELSE db.nextSegID]]

recoverFile(db, dsk, name) ==
  LET seg == NewSegment(FileID(name), OpenFile(name, FALSE), name,
                        Len(dsk[name]))
  IN appendRecovered(db, seg, recoverSegmentIndex(seg, db.index, dsk))

\* the loop of recover over segFiles[i..]; it returns on the first error
RECURSIVE recoverFiles(_, _, _, _)
recoverFiles(files, i, acc, dsk) ==
  IF i > Len(files) \/ acc.err # "nil" THEN acc
  ELSE recoverFiles(files, i + 1, recoverFile(acc.db, dsk, files[i]), dsk)

\* the end of recover, r being what its loop returned: the write target
\* is the last segment, or a new one if there is none
recoverOut(r, dsk) ==
  IF r.err # "nil" THEN [err |-> r.err, db |-> r.db, disk |-> dsk]
  ELSE IF Len(r.db.segments) = 0
    THEN [err |-> "nil"] @@ createNewSegment(r.db, dsk)
  ELSE [err |-> "nil",
        db |-> [r.db EXCEPT !.out = Len(r.db.segments)],
        disk |-> dsk]

\* db.recover(): the Db fields and the directory afterwards
recover(db, dsk, curFirst) ==
  recoverOut(recoverFiles(segFiles(dsk, curFirst), 1,
                          [err |-> "nil", db |-> db], dsk), dsk)

\* the Db that OpenWithMaxSize constructs before it calls recover
NewDb == [segments |-> <<>>, out |-> 0, index |-> EmptyMap, nextSegID |-> 0]

NoOp(name) == [name |-> name, key |-> <<>>]

\* -------------------------------------------------------------------- Get
\* the read of a worker: open filePath, seek to offset, decode one record
worker(dsk, filePath, offset) ==
  IF filePath \notin DOMAIN dsk THEN [err |-> "open", value |-> <<>>]
  ELSE LET record == DecodeFromReader(dsk[filePath], offset)
       IN [err |-> record.err, value |-> record.value]

\* a Get that reports a missing segment as a missing key
GetMissingSegmentNotFound(key) ==
  IF key \notin DOMAIN index THEN [err |-> "ErrNotFound", value |-> <<>>]
  ELSE LET loc == index[key]
           found == {i \in 1..Len(segments) : segments[i].id = loc.segID}
       IN IF found = {} THEN [err |-> "ErrNotFound", value |-> <<>>]
          ELSE LET i == CHOOSE j \in found : \A l \in found : j <= l
               IN IF workerPool = "closed"
                    THEN [err |-> "panic", value |-> <<>>]
                  ELSE worker(disk, segments[i].filePath, loc.offset)

\* Get with no other operation in flight: the index lookup, then the first
\* live segment with that id, then the read handed to a worker
Get(key) ==
  IF key \notin DOMAIN index THEN [err |-> "ErrNotFound", value |-> <<>>]
  ELSE LET loc == index[key]
           found == {i \in 1..Len(segments) : segments[i].id = loc.segID}
       IN IF found = {} THEN [err |-> "segment not found", value |-> <<>>]
          ELSE LET i == CHOOSE j \in found : \A l \in found : j <= l
               IN IF workerPool = "closed"
                    THEN [err |-> "panic", value |-> <<>>]
                  ELSE worker(disk, segments[i].filePath, loc.offset)

\* db.Size()
RECURSIVE SumSizes(_, _)
SumSizes(segs, i) ==
  IF i > Len(segs) THEN 0 ELSE segs[i].size + SumSizes(segs, i + 1)

Size == SumSizes(segments, 1)

\* ------------------------------------------------------------------ doPut
\* a doPut that rolls over once the write target is over maxSize, whatever
\* the length of the record
doPutSizeOnly(db, dsk, max, key, value, writeFails) ==
  LET data == Encode(key, value)
      c == IF db.segments[db.out].size > max
             THEN createNewSegment(db, dsk)
             ELSE [db |-> db, disk |-> dsk]
      o == c.db.out
      seg == c.db.segments[o]
  IN IF seg.file.closed \/ writeFails
       THEN [err |-> "write", db |-> c.db, disk |-> c.disk, merge |-> FALSE]
     ELSE [err |-> "nil",
           db |-> [c.db EXCEPT
                     !.segments[o] =
                        [seg EXCEPT !.file = Advance(c.disk, seg.file, data),
                                    !.index = MapPut(@, key, seg.size),
                                    !.size = @ + Len(data)],
                     !.index = MapPut(@, key, [segID |-> seg.id,
                                               offset |-> seg.size])],
           disk |-> FileWrite(c.disk, seg.file, data),
           merge |-> Len(c.db.segments) > 1]

\* a doPut that indexes the record before it looks at the error of the
\* write
doPutIndexFirst(db, dsk, max, key, value, writeFails) ==
  LET data == Encode(key, value)
      c == IF db.segments[db.out].size + Len(data) > max
             THEN createNewSegment(db, dsk)
             ELSE [db |-> db, disk |-> dsk]
      o == c.db.out
      seg == c.db.segments[o]
      indexed == [c.db EXCEPT
                    !.segments[o].index = MapPut(@, key, seg.size),
                    !.index = MapPut(@, key, [segID |-> seg.id,
                                              offset |-> seg.size])]
  IN IF seg.file.closed \/ writeFails
       THEN [err |-> "write", db |-> indexed, disk |-> c.disk,
             merge |-> FALSE]
     ELSE [err |-> "nil",
           db |-> [indexed EXCEPT
                     !.segments[o].file = Advance(c.disk, seg.file, data),
                     !.segments[o].size = @ + Len(data)],
           disk |-> FileWrite(c.disk, seg.file, data),
           merge |-> Len(c.db.segments) > 1]

\* the Db fields and the directory after doPut, and whether it started a
\* compaction goroutine.  writeFails: db.out.file.Write returns an I/O error
doPut(db, dsk, max, key, value, writeFails) ==
  LET data == Encode(key, value)
      c == IF db.segments[db.out].size + Len(data) > max
             THEN createNewSegment(db, dsk)
             ELSE [db |-> db, disk |-> dsk]
      o == c.db.out
      seg == c.db.segments[o]
  IN IF seg.file.closed \/ writeFails
       THEN [err |-> "write", db |-> c.db, disk |-> c.disk, merge |-> FALSE]
     ELSE [err |-> "nil",
           db |-> [c.db EXCEPT
                     !.segments[o] =
                        [seg EXCEPT !.file = Advance(c.disk, seg.file, data),
                                    !.index = MapPut(@, key, seg.size),
                                    !.size = @ + Len(data)],
                     !.index = MapPut(@, key, [segID |-> seg.id,
                                               offset |-> seg.size])],
           disk |-> FileWrite(c.disk, seg.file, data),
           merge |-> Len(c.db.segments) > 1]

\* ---------------------------------------------------------- mergeSegments
Remove(dsk, paths) == [p \in DOMAIN dsk \ paths |-> dsk[p]]

Rename(dsk, from, to) ==
  [p \in (DOMAIN dsk \ {from}) \cup {to} |->
     IF p = to THEN dsk[from] ELSE dsk[p]]

\* the record loop over one source file from segOffset on.  acc is the new
\* index, the bytes written to the temporary file and the offset counter
RECURSIVE mergeRecords(_, _, _, _)
mergeRecords(bytes, segOffset, nid, acc) ==
  LET record == DecodeFromReader(bytes, segOffset) IN
  IF record.err = "EOF" THEN acc
  ELSE IF record.err # "nil" THEN [acc EXCEPT !.hung = TRUE]
  ELSE LET data == Encode(record.key, record.value)
           acc1 == IF record.key \in DOMAIN acc.newIndex THEN acc
                   ELSE [acc EXCEPT
                           !.newIndex = MapPut(@, record.key,
                                [segID |-> nid, offset |-> acc.offset]),
                           !.temp = @ \o data,
                           !.offset = @ + Len(data)]
       IN mergeRecords(bytes, segOffset + record.n, nid, acc1)

\* the I/O errors of one run of mergeSegments: the source files that
\* cannot be opened, the source files whose first read fails, and whether
\* the rename of the temporary file fails
NoFault == [hidden |-> {}, unreadable |-> {}, rename |-> FALSE]

\* the loop over the source segments, from segs[i] down to segs[1].  A read
\* error takes the branch that closes the file and continues the record
\* loop, where every later read of the closed file fails again
RECURSIVE mergeSources(_, _, _, _, _, _)
mergeSources(segs, i, dsk, faults, nid, acc) ==
  IF i < 1 \/ acc.hung THEN acc
  ELSE LET path == segs[i].filePath IN
       IF path \in faults.hidden \/ path \notin DOMAIN dsk
         THEN mergeSources(segs, i - 1, dsk, faults, nid, acc)
       ELSE IF path \in faults.unreadable
         THEN [acc EXCEPT !.hung = TRUE]
       ELSE mergeSources(segs, i - 1, dsk, faults, nid,
                         mergeRecords(dsk[path], 0, nid, acc))

\* the files the last loop of mergeSegments removes: it ranges over
\* db.segments[:len(db.segments)-1] as db.segments is at that point
removedFiles(segs) == {segs[i].filePath : i \in 1..(Len(segs) - 1)}

\* mergeSegments up to the end of its loop over the sources: the new
\* index, the offset counter, and the directory with the temporary file,
\* which is opened O_APPEND|O_CREATE and keeps what it held
mergeCopy(db, dsk, faults) ==
  LET temp0 == Create(dsk, tempPath)
      acc == mergeSources(db.segments, Len(db.segments), dsk, faults,
                          db.nextSegID,
                          [newIndex |-> EmptyMap, temp |-> <<>>,
                           offset |-> 0, hung |-> FALSE])
  IN [acc |-> acc, disk |-> [temp0 EXCEPT ![tempPath] = @ \o acc.temp]]

\* the segments after the loop that closes every seg.file
closeFiles(segs) ==
  [i \in 1..Len(segs) |-> [segs[i] EXCEPT !.file.closed = TRUE]]

\* the removal of the temporary file on the return of mergeSegments, r
\* being the Db and the directory at that point
removeTemp(r) == [db |-> r.db, disk |-> Remove(r.disk, {tempPath})]

\* the rest of mergeSegments, copy being what the loop over the sources
\* left: the source files are closed, the temporary file is renamed and
\* opened, the new segment replaces the others and their files are removed
mergeFinish(db, faults, copy) ==
  LET newSegPath == segmentPrefix(db.nextSegID)
      newSeg == [id |-> db.nextSegID,
                 file |-> OpenFile(newSegPath, FALSE),
                 filePath |-> newSegPath,
                 size |-> copy.acc.offset,
                 index |-> [k \in DOMAIN copy.acc.newIndex |->
                              copy.acc.newIndex[k].offset]]
      swapped == [segments |-> <<newSeg>>, out |-> 1,
                  index |-> copy.acc.newIndex,
                  nextSegID |-> db.nextSegID + 1]
  IN IF copy.acc.hung
       THEN [ran |-> TRUE, hung |-> TRUE, db |-> db, disk |-> copy.disk]
     ELSE IF faults.rename
       \* os.Rename failed: db.recover() on the Db as it is, its error
       \* dropped, then the deferred removal of the temporary file
       THEN [ran |-> TRUE, hung |-> FALSE] @@
            removeTemp(recover([db EXCEPT !.segments = closeFiles(@)],
                               copy.disk, TRUE))
     ELSE [ran |-> TRUE, hung |-> FALSE, db |-> swapped,
           disk |-> Remove(Rename(copy.disk, tempPath, newSegPath),
                           removedFiles(swapped.segments) \cup {tempPath})]

\* mergeSegments once it holds writeMutex
mergeSegments(db, dsk, faults) ==
  IF Len(db.segments) <= 1
    THEN [ran |-> FALSE, hung |-> FALSE, db |-> db, disk |-> dsk]
  ELSE mergeFinish(db, faults, mergeCopy(db, dsk, faults))

\* ------------------------------------------------------------------ Close
\* a Once that runs its function on every call
OnceDoEveryCall(done) == TRUE

\* sync.Once.Do runs its function if it has not run before
OnceDo(done) == ~done

RECURSIVE Sum(_, _)
Sum(f, S) ==
  IF S = {} THEN 0
  ELSE LET x == CHOOSE y \in S : TRUE IN f[x] + Sum(f, S \ {x})

TotalPuts == Sum(putCount, Keys)

\* ---------------------------------------------------------------- actions
SetDb(db) ==
  /\ segments' = db.segments
  /\ out' = db.out
  /\ index' = db.index
  /\ nextSegID' = db.nextSegID

\* the state OpenWithMaxSize(dir, max) returns on the directory dsk; how
\* names the step for the history
Opened(dsk, max, curFirst, how) ==
  LET r == recover(NewDb, dsk, curFirst) IN
  /\ maxSize' = max
  /\ disk' = r.disk
  /\ mergeHung' = FALSE
  /\ mergePending' = 0
  /\ panicked' = FALSE
  /\ closeCalls' = 0
  /\ op' = NoOp(how)
  /\ UNCHANGED stmtVars
  /\ IF r.err = "nil"
       THEN /\ SetDb(r.db)
            /\ closeOnce' = FALSE
            /\ writerDone' = "open"
            /\ workerPool' = "open"
       ELSE /\ SetDb([r.db EXCEPT !.segments = <<>>, !.out = 0])
            /\ closeOnce' = TRUE
            /\ writerDone' = "closed"
            /\ workerPool' = "closed"

\* ---------------------------------------------------------- load balancer
MaxInt32 == 2147483647

Handlers == {"h1", "h2"}

\* var serversPool: three healthy servers without connections
NewServer(conns, healthy) == [ActiveConns |-> conns, IsHealthy |-> healthy]
serversPool == [i \in 1..3 |-> NewServer(0, TRUE)]

\* no server: the nil *Server
NoServer == 0

\* findLeastBusyServer has returned nothing yet
NotCalled == -1

\* the balancer with the pool p and no request in its handler
LBStart(p) ==
  [pool |-> p,
   handlers |-> [h \in Handlers |-> [pc |-> "idle", server |-> NoServer]],
   requests |-> 0,
   found |-> NotCalled]

\* the loop of findLeastBusyServer over serversPool[i..]
RECURSIVE leastBusy(_, _, _, _)
leastBusy(p, i, leastBusyServer, minActiveConns) ==
  IF i > Len(p) THEN leastBusyServer
  ELSE IF p[i].IsHealthy /\ p[i].ActiveConns < minActiveConns
    THEN leastBusy(p, i + 1, i, p[i].ActiveConns)
  ELSE leastBusy(p, i + 1, leastBusyServer, minActiveConns)

\* the second half of findLeastBusyServer on the server the loop chose
countLeastBusy(p, server) ==
  IF server # NoServer /\ p[server].IsHealthy
    THEN [server |-> server,
          pool |-> [p EXCEPT ![server].ActiveConns = @ + 1]]
  ELSE [server |-> NoServer, pool |-> p]

\* findLeastBusyServer(): the server returned and the pool afterwards
findLeastBusyServer(p) ==
  countLeastBusy(p, leastBusy(p, 1, NoServer, MaxInt32))

\* releaseServer(server)
releaseServer(p, server) ==
  [p EXCEPT ![server].ActiveConns = IF @ > 0 THEN @ - 1 ELSE @]

\* the state OpenWithMaxSize returns on the directory dsk, last being the
\* values the Puts of an earlier run left in it
InitStore(dsk, last) ==
  /\ \E max \in MaxSizes :
       LET r == recover(NewDb, dsk, TRUE) IN
       /\ maxSize = max
       /\ disk = r.disk
       /\ segments = r.db.segments
       /\ out = r.db.out
       /\ index = r.db.index
       /\ nextSegID = r.db.nextSegID
  /\ closeOnce = FALSE
  /\ writerDone = "open"
  /\ workerPool = "open"
  /\ panicked = FALSE
  /\ mergeHung = FALSE
  /\ mergePending = 0
  /\ lastPut = last
  /\ putCount = [k \in Keys |-> IF last[k] = <<>> THEN 0 ELSE 1]
  /\ opens = 1
  /\ closeCalls = 0
  /\ ioErrors = 0
  /\ op = NoOp("open")
  /\ writeMutex = "free"
  /\ mu = "free"
  /\ pc = Idle
  /\ req = NoReq
  /\ gets = [g \in Getters |-> NoGet]
  /\ pool = <<>>
  /\ work = [w \in Workers |-> NoWork]
  /\ written = [k \in Keys |-> {last[k]} \ {<<>>}]

\* the store on dsk and the load balancer as its main starts it
InitOn(dsk, last) == InitStore(dsk, last) /\ lb = LBStart(serversPool)

\* OpenWithMaxSize on an empty directory
Init == InitOn(EmptyMap, [k \in Keys |-> <<>>])

\* a new process opens the directory the closed store left, with the
\* maxSize of its configuration.  os.ReadDir lists current-data before
\* segment-0 and sort.Slice sorts the few files of a directory by
\* insertion, which keeps that order
Open ==
  /\ closeOnce /\ ~panicked
  /\ opens < MaxOpens
  /\ Opened(disk, maxSize, TRUE, "open")
  /\ opens' = opens + 1
  /\ UNCHANGED <<lastPut, putCount, ioErrors>>

\* Put(key, value): the writer goroutine takes the request and runs doPut
\* under writeMutex
Put(key, value) ==
  /\ ~closeOnce /\ ~mergeHung
  /\ TotalPuts < MaxPuts
  /\ LET r == doPut(Db, disk, maxSize, key, value, FALSE) IN
     /\ SetDb(r.db)
     /\ disk' = r.disk
     /\ mergePending' = IF r.merge THEN mergePending + 1 ELSE mergePending
     /\ IF r.err = "nil"
          THEN /\ lastPut' = [lastPut EXCEPT ![key] = value]
               /\ putCount' = [putCount EXCEPT ![key] = @ + 1]
          ELSE UNCHANGED <<lastPut, putCount>>
     /\ op' = [name |-> IF r.err = "nil" THEN "put" ELSE "put-failed",
               key |-> key]
  /\ UNCHANGED <<maxSize, closeOnce, writerDone, workerPool, panicked,
                 mergeHung, opens, closeCalls, ioErrors, stmtVars>>

\* one run of mergeSegments with the I/O errors in faults
Merge(faults) ==
  /\ ~mergeHung
  /\ faults # NoFault => ioErrors < MaxIOErrors /\ Len(segments) > 1
  /\ ioErrors' = IF faults = NoFault THEN ioErrors ELSE ioErrors + 1
  /\ \E r \in {mergeSegments(Db, disk, faults)} :
     /\ SetDb(r.db)
     /\ disk' = r.disk
     /\ mergeHung' = r.hung
     /\ op' = NoOp(IF ~r.ran THEN "merge-noop"
                  ELSE IF faults.rename THEN "merge-renamefail"
                  ELSE IF faults.unreadable # {} THEN "merge-readerr"
                  ELSE IF faults.hidden # {} THEN "merge-ioerr"
                  ELSE IF r.hung THEN "merge-hung"
                  ELSE "merge")
  /\ UNCHANGED <<maxSize, closeOnce, writerDone, workerPool, panicked,
                 lastPut, putCount, opens, closeCalls, stmtVars>>

\* a run without I/O error, or with one source file that cannot be opened
Hidden ==
  {NoFault} \cup {[NoFault EXCEPT !.hidden = {segments[i].filePath}] :
                    i \in 1..Len(segments)}

\* a run with one source file that cannot be read, or with a rename that
\* fails
Faults ==
  {[NoFault EXCEPT !.rename = TRUE]}
  \cup {[NoFault EXCEPT !.unreadable = {segments[i].filePath}] :
          i \in 1..Len(segments)}

\* a goroutine started by doPut gets writeMutex.  One that gets it after
\* Close finds no segments and returns: that step changes nothing and is
\* left out
BackgroundMerge ==
  /\ mergePending > 0 /\ ~closeOnce
  /\ mergePending' = mergePending - 1
  /\ Merge(NoFault)

\* a direct call of db.mergeSegments(), as the tests of the package make,
\* one of them with a source file moved away for the time of the call
DirectMerge ==
  /\ ~closeOnce
  /\ UNCHANGED mergePending
  /\ \E faults \in Hidden : Merge(faults)

\* the run of a goroutine started by doPut meets a read error or a rename
\* error
MergeIOError ==
  /\ mergePending > 0 /\ ~closeOnce
  /\ mergePending' = mergePending - 1
  /\ \E faults \in Faults : Merge(faults)

\* the process is killed while a goroutine started by doPut is in
\* mergeSegments between the end of the copy and the rename, and a new
\* process opens the directory
CrashInMerge ==
  /\ mergePending > 0 /\ ~closeOnce /\ ~mergeHung
  /\ Len(segments) > 1
  /\ opens < MaxOpens /\ ioErrors < MaxIOErrors
  /\ Opened(mergeCopy(Db, disk, NoFault).disk, maxSize, TRUE, "crash-open")
  /\ opens' = opens + 1
  /\ ioErrors' = ioErrors + 1
  /\ UNCHANGED <<lastPut, putCount>>

\* Put whose write to the write target's file fails
PutWriteError(key, value) ==
  /\ ~closeOnce /\ ~mergeHung
  /\ TotalPuts < MaxPuts /\ ioErrors < MaxIOErrors
  /\ LET r == doPut(Db, disk, maxSize, key, value, TRUE) IN
     /\ SetDb(r.db)
     /\ disk' = r.disk
  /\ ioErrors' = ioErrors + 1
  /\ op' = [name |-> "put-failed", key |-> key]
  /\ UNCHANGED <<maxSize, closeOnce, writerDone, workerPool, panicked,
                 mergeHung, mergePending, lastPut, putCount, opens,
                 closeCalls, stmtVars>>

\* Put on a Db that Close has closed.  The writer goroutine has returned
\* on writerDone and the send on writeChan finds no receiver, or its
\* select still takes the request and doPut dereferences the nil db.out
PutClosed(key) ==
  /\ closeOnce /\ closeCalls > 0 /\ ~panicked
  /\ \E outcome \in {"put-blocked", "put-panic"} :
       /\ op' = [name |-> outcome, key |-> key]
       /\ panicked' = (outcome = "put-panic")
  /\ UNCHANGED <<disk, segments, out, index, maxSize, nextSegID, closeOnce,
                 writerDone, workerPool, mergeHung, mergePending, lastPut,
                 putCount, opens, closeCalls, ioErrors, stmtVars>>

Close ==
  /\ closeCalls < MaxCloseCalls
  /\ ~mergeHung /\ ~panicked
  /\ closeCalls' = closeCalls + 1
  /\ op' = NoOp("close")
  /\ IF ~OnceDo(closeOnce)
       THEN UNCHANGED <<panicked, writerDone, workerPool, segments, out,
                        closeOnce, index, nextSegID>>
     ELSE IF writerDone = "closed" \/ workerPool = "closed"
       THEN \* close of a closed channel
            /\ panicked' = TRUE
            /\ UNCHANGED <<writerDone, workerPool, segments, out,
                           closeOnce, index, nextSegID>>
     ELSE /\ writerDone' = "closed"
          /\ workerPool' = "closed"
          /\ segments' = <<>>
          /\ out' = 0
          /\ closeOnce' = TRUE
          /\ UNCHANGED <<panicked, index, nextSegID>>
  /\ UNCHANGED <<disk, maxSize, mergeHung, mergePending, lastPut, putCount,
                 opens, ioErrors, stmtVars>>

Next ==
  \/ \E key \in Keys : Put(key, ValueOf(TotalPuts + 1))
  \/ BackgroundMerge
  \/ DirectMerge
  \/ Close
  \/ Open

Spec == Init /\ [][Next]_vars

\* the store as a program uses it, with compaction in the background
\* only, and with I/O errors, crashes and calls on a closed Db
NextFaults ==
  \/ \E key \in Keys : Put(key, ValueOf(TotalPuts + 1))
  \/ \E key \in Keys : PutWriteError(key, ValueOf(TotalPuts + 1))
  \/ \E key \in Keys : PutClosed(key)
  \/ BackgroundMerge
  \/ MergeIOError
  \/ CrashInMerge
  \/ Close
  \/ Open

SpecFaults == Init /\ [][NextFaults]_vars

\* ------------------------------------------- single statements as steps
\* the goroutines of one Db with the statements of writer, doPut,
\* mergeSegments and Close as steps, to see the two locks at work

\* a Lock that does not wait
MutexNoWait(m) == TRUE

\* sync.Mutex.Lock and sync.RWMutex.Lock return once the lock is free
MutexFree(m) == m = "free"

At(g, stmt) == pc[g] = stmt
Goto(g, stmt) == pc' = [pc EXCEPT ![g] = stmt]

dbVars == <<disk, segments, out, index, maxSize, nextSegID>>
chanVars == <<closeOnce, writerDone, workerPool>>
histVars == <<lastPut, putCount, opens, closeCalls, ioErrors, op>>

\* the record of the request in flight
reqData == Encode(req.key, req.value)

\* Db.Put sends its request on writeChan and the select of the writer
\* takes it; after Close the select may still do so if the writer has not
\* returned yet
WriterReceive(key, value) ==
  /\ ~panicked /\ At("writer", "select")
  /\ TotalPuts < MaxPuts
  /\ Goto("writer", "lock")
  /\ req' = [key |-> key, value |-> value]
  /\ written' = [written EXCEPT ![key] = @ \cup {value}]
  /\ UNCHANGED <<gets, pool, work, lb>>
  /\ UNCHANGED <<dbVars, chanVars, histVars, panicked, mergeHung,
                 mergePending, writeMutex, mu>>

\* the writer returns on the closed writerDone
WriterExit ==
  /\ ~panicked /\ At("writer", "select")
  /\ writerDone = "closed"
  /\ Goto("writer", "exited")
  /\ UNCHANGED <<dbVars, chanVars, histVars, panicked, mergeHung,
                 mergePending, writeMutex, mu, req, readVars>>

\* db.writeMutex.Lock() in writer
WriterLock ==
  /\ ~panicked /\ At("writer", "lock")
  /\ MutexFree(writeMutex)
  /\ writeMutex' = "writer"
  /\ Goto("writer", "rollover")
  /\ UNCHANGED <<dbVars, chanVars, histVars, panicked, mergeHung,
                 mergePending, mu, req, readVars>>

\* doPut up to the write: the size test and createNewSegment.  The test
\* dereferences db.out, which is nil after Close
WriterRollover ==
  /\ ~panicked /\ At("writer", "rollover")
  /\ IF out = 0
       THEN /\ panicked' = TRUE
            /\ Goto("writer", "dead")
            /\ UNCHANGED dbVars
     ELSE /\ UNCHANGED <<panicked, maxSize>>
          /\ Goto("writer", "write")
          /\ IF segments[out].size + Len(reqData) > maxSize
               THEN LET c == createNewSegment(Db, disk) IN
                    SetDb(c.db) /\ disk' = c.disk
             ELSE UNCHANGED <<disk, segments, out, index, nextSegID>>
  /\ UNCHANGED <<chanVars, histVars, mergeHung, mergePending, writeMutex,
                 mu, req, readVars>>

\* db.out.file.Write(data)
WriterWrite ==
  /\ ~panicked /\ At("writer", "write")
  /\ disk' = FileWrite(disk, segments[out].file, reqData)
  /\ segments' = [segments EXCEPT
                    ![out].file = Advance(disk, @, reqData)]
  /\ Goto("writer", "muLock")
  /\ UNCHANGED <<out, index, maxSize, nextSegID, chanVars, histVars,
                 panicked, mergeHung, mergePending, writeMutex, mu, req, readVars>>

\* db.mu.Lock() in doPut
WriterMuLock ==
  /\ ~panicked /\ At("writer", "muLock")
  /\ MutexFree(mu)
  /\ mu' = "writer"
  /\ Goto("writer", "index")
  /\ UNCHANGED <<dbVars, chanVars, histVars, panicked, mergeHung,
                 mergePending, writeMutex, req, readVars>>

\* the two index assignments of doPut
WriterIndex ==
  /\ ~panicked /\ At("writer", "index")
  /\ segments' = [segments EXCEPT
                    ![out].index = MapPut(@, req.key, segments[out].size)]
  /\ index' = MapPut(index, req.key, [segID |-> segments[out].id,
                                      offset |-> segments[out].size])
  /\ Goto("writer", "muUnlock")
  /\ UNCHANGED <<disk, out, maxSize, nextSegID, chanVars, histVars,
                 panicked, mergeHung, mergePending, writeMutex, mu, req, readVars>>

\* db.mu.Unlock() in doPut
WriterMuUnlock ==
  /\ ~panicked /\ At("writer", "muUnlock")
  /\ mu' = "free"
  /\ Goto("writer", "size")
  /\ UNCHANGED <<dbVars, chanVars, histVars, panicked, mergeHung,
                 mergePending, writeMutex, req, readVars>>

\* db.out.size += int64(n), and go db.mergeSegments() if there is more
\* than one segment
WriterSize ==
  /\ ~panicked /\ At("writer", "size")
  /\ segments' = [segments EXCEPT ![out].size = @ + Len(reqData)]
  /\ mergePending' = IF Len(segments) > 1 THEN mergePending + 1
                     ELSE mergePending
  /\ Goto("writer", "reply")
  /\ UNCHANGED <<disk, out, index, maxSize, nextSegID, chanVars, histVars,
                 panicked, mergeHung, writeMutex, mu, req, readVars>>

\* req.err <- err and db.writeMutex.Unlock() in writer; Put returns
WriterReply ==
  /\ ~panicked /\ At("writer", "reply")
  /\ writeMutex' = "free"
  /\ Goto("writer", "select")
  /\ req' = NoReq
  /\ UNCHANGED readVars
  /\ lastPut' = [lastPut EXCEPT ![req.key] = req.value]
  /\ putCount' = [putCount EXCEPT ![req.key] = @ + 1]
  /\ op' = [name |-> "put", key |-> req.key]
  /\ UNCHANGED <<dbVars, chanVars, opens, closeCalls, ioErrors, panicked,
                 mergeHung, mergePending, mu>>

\* db.writeMutex.Lock() in a goroutine that doPut started
MergeLock(m) ==
  /\ ~panicked /\ At(m, "idle")
  /\ mergePending > 0
  /\ MutexFree(writeMutex)
  /\ writeMutex' = m
  /\ mergePending' = mergePending - 1
  /\ Goto(m, "check")
  /\ UNCHANGED <<dbVars, chanVars, histVars, panicked, mergeHung, mu, req, readVars>>

\* mergeSegments without its test of len(db.segments)
MergeCheckAlways(m) ==
  /\ ~panicked /\ At(m, "check")
  /\ Goto(m, "muLock")
  /\ UNCHANGED <<dbVars, chanVars, histVars, panicked, mergeHung,
                 mergePending, writeMutex, mu, req, readVars>>

\* the test len(db.segments) <= 1 of mergeSegments
MergeCheck(m) ==
  /\ ~panicked /\ At(m, "check")
  /\ Goto(m, IF Len(segments) <= 1 THEN "return" ELSE "muLock")
  /\ UNCHANGED <<dbVars, chanVars, histVars, panicked, mergeHung,
                 mergePending, writeMutex, mu, req, readVars>>

\* db.mu.Lock() in mergeSegments
MergeMuLock(m) ==
  /\ ~panicked /\ At(m, "muLock")
  /\ MutexFree(mu)
  /\ mu' = m
  /\ Goto(m, "swap")
  /\ UNCHANGED <<dbVars, chanVars, histVars, panicked, mergeHung,
                 mergePending, writeMutex, req, readVars>>

\* the four assignments of the swap.  The file work of the run, which no
\* other goroutine of this specification looks at, is part of this step
MergeSwap(m) ==
  /\ ~panicked /\ At(m, "swap")
  /\ \E r \in {mergeFinish(Db, NoFault, mergeCopy(Db, disk, NoFault))} :
     SetDb(r.db) /\ disk' = r.disk
  /\ Goto(m, "muUnlock")
  /\ UNCHANGED <<maxSize, chanVars, histVars, panicked, mergeHung,
                 mergePending, writeMutex, mu, req, readVars>>

\* db.mu.Unlock() in mergeSegments
MergeMuUnlock(m) ==
  /\ ~panicked /\ At(m, "muUnlock")
  /\ mu' = "free"
  /\ Goto(m, "return")
  /\ UNCHANGED <<dbVars, chanVars, histVars, panicked, mergeHung,
                 mergePending, writeMutex, req, readVars>>

\* mergeSegments returns: the deferred db.writeMutex.Unlock()
MergeReturn(m) ==
  /\ ~panicked /\ At(m, "return")
  /\ writeMutex' = "free"
  /\ Goto(m, "idle")
  /\ UNCHANGED <<dbVars, chanVars, histVars, panicked, mergeHung,
                 mergePending, mu, req, readVars>>

\* the first Close: closeOnce.Do starts, close(db.writerDone) and
\* close(db.workerPool)
CloseChannels ==
  /\ ~panicked /\ At("close", "idle")
  /\ OnceDo(closeOnce)
  /\ closeOnce' = TRUE
  /\ writerDone' = "closed"
  /\ workerPool' = "closed"
  /\ closeCalls' = closeCalls + 1
  /\ Goto("close", "lock")
  /\ UNCHANGED <<dbVars, lastPut, putCount, opens, ioErrors, op, panicked,
                 mergeHung, mergePending, writeMutex, mu, req, readVars>>

\* db.writeMutex.Lock() in Close
CloseLock ==
  /\ ~panicked /\ At("close", "lock")
  /\ MutexFree(writeMutex)
  /\ writeMutex' = "close"
  /\ Goto("close", "files")
  /\ UNCHANGED <<dbVars, chanVars, histVars, panicked, mergeHung,
                 mergePending, mu, req, readVars>>

\* the loop that closes the files, db.segments = nil and db.out = nil
CloseFiles ==
  /\ ~panicked /\ At("close", "files")
  /\ segments' = <<>>
  /\ out' = 0
  /\ Goto("close", "unlock")
  /\ UNCHANGED <<disk, index, maxSize, nextSegID, chanVars, histVars,
                 panicked, mergeHung, mergePending, writeMutex, mu, req, readVars>>

\* Close returns: the deferred db.writeMutex.Unlock()
CloseReturn ==
  /\ ~panicked /\ At("close", "unlock")
  /\ writeMutex' = "free"
  /\ Goto("close", "done")
  /\ op' = NoOp("close")
  /\ UNCHANGED <<dbVars, chanVars, lastPut, putCount, opens, closeCalls,
                 ioErrors, panicked, mergeHung, mergePending, mu, req, readVars>>

\* ------------------------------------------------------ Get and db.worker
\* the variables the read path only reads
storeVars == <<dbVars, chanVars, histVars, mergeHung, mergePending,
               writeMutex, mu, pc, req, written, lb>>

\* sync.RWMutex.RLock returns once no goroutine holds the lock for writing
RLockFree(m) == m = "free"

InGet(g, stmt) == gets[g].pc = stmt

\* Get returns resp to its caller
Returned(g, resp) == [gets[g] EXCEPT !.pc = "done", !.result = resp]

\* Get(key) starts: the lookup in db.index under db.mu.RLock.  floor is the
\* value of the last Put(key) that had returned by then
GetIndex(g, key) ==
  /\ ~panicked /\ InGet(g, "idle")
  /\ RLockFree(mu)
  /\ gets' = [gets EXCEPT ![g] =
       IF key \notin DOMAIN index
         THEN [NoGet EXCEPT !.pc = "done", !.key = key,
                            !.floor = lastPut[key],
                            !.result = [err |-> "ErrNotFound",
                                        value |-> <<>>]]
       ELSE [NoGet EXCEPT !.pc = "segment", !.key = key,
                          !.floor = lastPut[key], !.loc = index[key]]]
  /\ UNCHANGED <<storeVars, panicked, pool, work>>

\* the search of db.segments for loc.segID under db.mu.RLock
GetSegment(g) ==
  /\ ~panicked /\ InGet(g, "segment")
  /\ RLockFree(mu)
  /\ LET found == {i \in 1..Len(segments) :
                     segments[i].id = gets[g].loc.segID}
     IN gets' = [gets EXCEPT ![g] =
          IF found = {}
            THEN Returned(g, [err |-> "segment not found", value |-> <<>>])
          ELSE [@ EXCEPT !.pc = "send",
                         !.filePath =
                            segments[CHOOSE j \in found :
                                       \A l \in found : j <= l].filePath]]
  /\ UNCHANGED <<storeVars, panicked, pool, work>>

\* db.workerPool <- workerRequest{...}: the send waits while the buffer is
\* full and panics on a closed channel
GetSend(g) ==
  /\ ~panicked /\ InGet(g, "send")
  /\ IF workerPool = "closed"
       THEN /\ panicked' = TRUE
            /\ gets' = [gets EXCEPT ![g].pc = "dead"]
            /\ UNCHANGED pool
     ELSE /\ Len(pool) < workerPoolSize
          /\ pool' = Append(pool, [getter |-> g,
                                   filePath |-> gets[g].filePath,
                                   offset |-> gets[g].loc.offset])
          /\ gets' = [gets EXCEPT ![g].pc = "wait"]
          /\ UNCHANGED panicked
  /\ UNCHANGED <<storeVars, work>>

\* resp := <-resultChan and the return of Get
GetReturn(g) ==
  /\ ~panicked /\ InGet(g, "wait")
  /\ gets[g].responses > 0
  /\ gets' = [gets EXCEPT ![g].pc = "done"]
  /\ UNCHANGED <<storeVars, panicked, pool, work>>

\* for req := range db.workerPool: a worker receives the next request
WorkerTake(w) ==
  /\ ~panicked /\ work[w] = NoWork
  /\ pool # <<>>
  /\ work' = [work EXCEPT ![w] = Head(pool)]
  /\ pool' = Tail(pool)
  /\ UNCHANGED <<storeVars, panicked, gets>>

\* a worker that goes on to the next request without a send when the
\* decoding fails
WorkerRespondDecoded(w, fault) ==
  /\ ~panicked /\ work[w] \notin {NoWork, Exited}
  /\ gets' = IF fault = "corrupt" THEN gets
             ELSE [gets EXCEPT
                     ![work[w].getter].responses = @ + 1,
                     ![work[w].getter].result =
                        IF fault = "nil"
                          THEN worker(disk, work[w].filePath,
                                      work[w].offset)
                          ELSE [err |-> fault, value |-> <<>>]]
  /\ work' = [work EXCEPT ![w] = NoWork]
  /\ UNCHANGED <<storeVars, panicked, pool>>

\* the body of the loop of db.worker: open, seek, decode, and one send on
\* req.result on each of its paths.  The channel has a buffer of one, so
\* the send does not wait
WorkerRespond(w, fault) ==
  /\ ~panicked /\ work[w] \notin {NoWork, Exited}
  /\ gets' = [gets EXCEPT
                ![work[w].getter].responses = @ + 1,
                ![work[w].getter].result =
                   IF fault = "nil"
                     THEN worker(disk, work[w].filePath, work[w].offset)
                     ELSE [err |-> fault, value |-> <<>>]]
  /\ work' = [work EXCEPT ![w] = NoWork]
  /\ UNCHANGED <<storeVars, panicked, pool>>

\* the errors of os.Open and DecodeFromReader that a worker can meet on a
\* file that is in place and whole; file.Seek to an offset of the index
\* does not fail on a regular file
ReadFaults == {"nil", "open", "corrupt"}

\* the range loop ends on the closed and drained channel
WorkerExit(w) ==
  /\ ~panicked /\ work[w] = NoWork
  /\ workerPool = "closed" /\ pool = <<>>
  /\ work' = [work EXCEPT ![w] = Exited]
  /\ UNCHANGED <<storeVars, panicked, pool, gets>>

NextStmts ==
  \/ \E key \in Keys : WriterReceive(key, ValueOf(TotalPuts + 1))
  \/ WriterExit
  \/ WriterLock
  \/ WriterRollover
  \/ WriterWrite
  \/ WriterMuLock
  \/ WriterIndex
  \/ WriterMuUnlock
  \/ WriterSize
  \/ WriterReply
  \/ \E m \in Mergers : MergeLock(m)
  \/ \E m \in Mergers : MergeCheck(m)
  \/ \E m \in Mergers : MergeMuLock(m)
  \/ \E m \in Mergers : MergeSwap(m)
  \/ \E m \in Mergers : MergeMuUnlock(m)
  \/ \E m \in Mergers : MergeReturn(m)
  \/ CloseChannels
  \/ CloseLock
  \/ CloseFiles
  \/ CloseReturn

SpecStmts == Init /\ [][NextStmts]_vars

\* the read path on the store opened on the directory that Put(<<1>>, v)
\* and Close have left.  A goroutine that can run does run: the Go
\* scheduler is fair to the callers of Get and to the workers
ReadDir == [p \in {outFileName} |-> Encode(<<1>>, ValueOf(1))]

InitReads ==
  InitOn(ReadDir, [k \in Keys |-> IF k = <<1>> THEN ValueOf(1) ELSE <<>>])

ReadSteps ==
  \/ \E g \in Getters, key \in Keys : GetIndex(g, key)
  \/ \E g \in Getters : GetSegment(g)
  \/ \E g \in Getters : GetSend(g)
  \/ \E g \in Getters : GetReturn(g)
  \/ \E w \in Workers : WorkerTake(w)
  \/ \E w \in Workers, fault \in ReadFaults : WorkerRespond(w, fault)

SpecReads == InitReads /\ [][ReadSteps]_vars /\ WF_vars(ReadSteps)

\* one Get beside the writer, the compaction goroutines and Close, with
\* single statements as steps
Reader == "get1"

NextGets ==
  \/ NextStmts
  \/ \E key \in Keys : GetIndex(Reader, key)
  \/ GetSegment(Reader)
  \/ GetSend(Reader)
  \/ GetReturn(Reader)
  \/ \E w \in Workers : WorkerTake(w)
  \/ \E w \in Workers : WorkerRespond(w, "nil")
  \/ \E w \in Workers : WorkerExit(w)

SpecGets == Init /\ [][NextGets]_vars

\* ------------------------------------------------- load balancer, its steps
\* what the balancer leaves alone: the store
balancerFrame == <<dbVars, chanVars, histVars, panicked, mergeHung, mergePending,
                   writeMutex, mu, pc, req, gets, pool, work, written>>

\* the pools findLeastBusyServer is tried on: up to MaxServers servers with
\* few connections or with as many as an int32 holds
MaxServers == 3
ConnCounts == {0, 1, 2, MaxInt32}
Servers == [ActiveConns : ConnCounts, IsHealthy : BOOLEAN]
Pools == UNION {[1..n -> Servers] : n \in 0..MaxServers}

\* one call of findLeastBusyServer() on the pool
Find ==
  /\ lb.found = NotCalled
  /\ \E r \in {findLeastBusyServer(lb.pool)} :
       lb' = [lb EXCEPT !.pool = r.pool, !.found = r.server]
  /\ UNCHANGED balancerFrame

InitFind ==
  /\ InitStore(EmptyMap, [k \in Keys |-> <<>>])
  /\ \E p \in Pools : lb = LBStart(p)

SpecFind == InitFind /\ [][Find]_vars

\* the requests the balancer handles in one run
MaxRequests == 3

AtHandler(h, stmt) == lb.handlers[h].pc = stmt

\* the handler calls findLeastBusyServer, which walks the pool for the
\* least busy healthy server; without one the handler answers 503
HandlerScan(h) ==
  /\ AtHandler(h, "idle")
  /\ lb.requests < MaxRequests
  /\ \E server \in {leastBusy(lb.pool, 1, NoServer, MaxInt32)} :
       lb' = [lb EXCEPT
                !.requests = @ + 1,
                !.handlers[h] = IF server = NoServer THEN @
                                ELSE [pc |-> "found", server |-> server]]
  /\ UNCHANGED balancerFrame

\* findLeastBusyServer locks the server it found again and counts the
\* connection if the server is still healthy; else it returns nil: 503
HandlerFound(h) ==
  /\ AtHandler(h, "found")
  /\ \E r \in {countLeastBusy(lb.pool, lb.handlers[h].server)} :
       lb' = [lb EXCEPT
                !.pool = r.pool,
                !.handlers[h] = IF r.server = NoServer
                                  THEN [pc |-> "idle", server |-> NoServer]
                                ELSE [@ EXCEPT !.pc = "count"]]
  /\ UNCHANGED balancerFrame

\* the handler: server.ActiveConns++ before it forwards
HandlerCount(h) ==
  /\ AtHandler(h, "count")
  /\ lb' = [lb EXCEPT
              !.pool[lb.handlers[h].server].ActiveConns = @ + 1,
              !.handlers[h].pc = "forward"]
  /\ UNCHANGED balancerFrame

\* forward returns and the deferred releaseServer runs
HandlerRelease(h) ==
  /\ AtHandler(h, "forward")
  /\ lb' = [lb EXCEPT
              !.pool = releaseServer(@, lb.handlers[h].server),
              !.handlers[h] = [pc |-> "idle", server |-> NoServer]]
  /\ UNCHANGED balancerFrame

\* health(server): the outcome of the probe becomes IsHealthy
health(server, ok) ==
  /\ lb.pool[server].IsHealthy # ok
  /\ lb' = [lb EXCEPT !.pool[server].IsHealthy = ok]
  /\ UNCHANGED balancerFrame

NextLB ==
  \/ \E h \in Handlers : HandlerScan(h)
  \/ \E h \in Handlers : HandlerFound(h)
  \/ \E h \in Handlers : HandlerCount(h)
  \/ \E h \in Handlers : HandlerRelease(h)
  \/ \E server \in 1..Len(lb.pool), ok \in BOOLEAN : health(server, ok)

SpecLB == Init /\ [][NextLB]_vars

\* ----------------------------------------------------------------- claims
Ok(value) == [err |-> "nil", value |-> value]

Written == {k \in Keys : lastPut[k] # <<>>}

\* no Put, compaction or Close is running or waiting to run
Quiescent == ~closeOnce /\ ~mergeHung /\ mergePending = 0

\* C1: on a directory that has seen no restart and no I/O error, whenever
\* no operation is in flight Get(k) returns the value of the last Put(k)
C1_LastWriteWins ==
  (Quiescent /\ opens = 1 /\ ioErrors = 0) =>
     \A k \in Written : Get(k) = Ok(lastPut[k])

\* C2: right after Close and a fresh Open of the directory, Get(k) returns
\* the value of the last successful Put(k) for every key written
C2_DurabilityAcrossRestart ==
  (op.name = "open" /\ ~closeOnce /\ ioErrors = 0) =>
     \A k \in Written : Get(k) = Ok(lastPut[k])

\* C3: a successful Put leaves the bytes the write target's file had
\* before in place, leaves the other files alone, and the offset it stores
\* in the global index and in the local index is the position of the
\* record it wrote
C3_PutOffsetIsWritePosition ==
  [][op'.name = "put" =>
       LET seg == segments'[out']
           path == seg.filePath
           old == IF path \in DOMAIN disk THEN disk[path] ELSE <<>>
           new == disk'[path]
           k == op'.key
           data == Encode(k, lastPut'[k])
           off == index'[k].offset
       IN /\ index'[k].segID = seg.id
          /\ seg.index[k] = off
          /\ Len(new) >= off + Len(data)
          /\ SubSeq(new, off + 1, off + Len(data)) = data
          /\ Len(new) >= Len(old)
          /\ SubSeq(new, 1, Len(old)) = old
          /\ \A p \in DOMAIN disk \ {path} : disk'[p] = disk[p]]_vars

\* the number of records of key in bytes from offset off on
RECURSIVE RecordsOf(_, _, _)
RecordsOf(key, bytes, off) ==
  LET record == DecodeFromReader(bytes, off) IN
  IF record.err # "nil" THEN 0
  ELSE (IF record.key = key THEN 1 ELSE 0)
       + RecordsOf(key, bytes, off + record.n)

\* C4: after a compaction without I/O error the merged segment holds one
\* record for every key written and Get(k) returns the last value put
C4_CompactionKeepsLatest ==
  (op.name = "merge" /\ ioErrors = 0) =>
     \A k \in Written :
        /\ RecordsOf(k, disk[segments[1].filePath], 0) = 1
        /\ Get(k) = Ok(lastPut[k])

\* C5: a compaction of two or more segments without I/O error leaves one
\* live segment, the write target, with the id nextSegID had; nextSegID
\* has advanced by one and the global index has the keys it had
C5_MergeSwap ==
  [][(op'.name = "merge" /\ ioErrors' = 0) =>
       /\ Len(segments') = 1
       /\ out' = 1
       /\ segments'[1].id = nextSegID
       /\ nextSegID' = nextSegID + 1
       /\ DOMAIN index' = DOMAIN index]_vars

\* the bytes of the records last put for the keys in S
RECURSIVE PutBytes(_)
PutBytes(S) ==
  IF S = {} THEN 0
  ELSE LET k == CHOOSE x \in S : TRUE
       IN Len(Encode(k, lastPut[k])) + PutBytes(S \ {k})

\* C6: on a store opened on an empty directory, once Puts of distinct keys
\* have forced a rollover, more than one segment file exists and Get(k)
\* returns the value put, before and after the background compaction
C6_RolloverCorrectness ==
  (/\ opens = 1 /\ ioErrors = 0 /\ ~closeOnce /\ ~mergeHung
   /\ \A k \in Keys : putCount[k] <= 1
   /\ PutBytes(Written) > maxSize) =>
     /\ Cardinality(DOMAIN disk) > 1
     /\ \A k \in Written : Get(k) = Ok(lastPut[k])

\* C7: no two live segments share an id, nextSegID is greater than every
\* live id, and on a directory that was empty the first segment is
\* current-data with id 0 and rollover never creates segment-0
C7_SegmentIdsUnique ==
  /\ \A i, j \in 1..Len(segments) :
        i # j => segments[i].id # segments[j].id
  /\ \A i \in 1..Len(segments) : nextSegID > segments[i].id
  /\ opens = 1 => segmentPrefix(0) \notin DOMAIN disk

\* C8: a compaction of two or more segments that could not open one of
\* them drops no key from the global index, and every key for which Get
\* returned the value last put before the attempt is returned with that
\* value after it
C8_CompactionResilience ==
  [][op'.name = "merge-ioerr" =>
       /\ DOMAIN index \subseteq DOMAIN index'
       /\ \A k \in Written :
            Get(k) = Ok(lastPut[k]) => Get(k)' = Get(k)]_vars

\* C9: after a successful compaction the merged segment's file is the only
\* file of the directory
C9_SourcesDeleted ==
  op.name \in {"merge", "merge-ioerr"} =>
     DOMAIN disk = {segments[1].filePath}

\* C10: the first Close closes both channels and drops the segments; every
\* later Close changes nothing of the store and none panics
C10_CloseIdempotent ==
  [][op'.name = "close" /\ closeCalls' = closeCalls + 1 =>
       /\ ~panicked'
       /\ IF ~closeOnce
            THEN /\ closeOnce' /\ writerDone' = "closed"
                 /\ workerPool' = "closed"
                 /\ segments' = <<>> /\ out' = 0
            ELSE UNCHANGED <<disk, segments, out, index, maxSize, nextSegID,
                             closeOnce, writerDone, workerPool, panicked,
                             mergeHung, mergePending>>]_vars

\* a second Close has returned on a closed store
C10_Witness ==
  closeOnce /\ closeCalls = 2 /\ op.name = "close" /\ ~panicked
  /\ writerDone = "closed" /\ workerPool = "closed"

\* C11: on a Db that Close has closed no Put is left blocked and none
\* panics, and every Get returns an error
C11_ClosedOpsFail ==
  (closeOnce /\ closeCalls > 0) =>
     /\ op.name \notin {"put-blocked", "put-panic"}
     /\ \A k \in Keys : Get(k).err \notin {"nil", "panic"}

\* the steps in which a compaction replaces the live segments by the
\* merged one
SwapOps == {"merge", "merge-ioerr"}

\* C12: a successful Put makes Size() greater, and Size() gets smaller
\* only in a step in which a compaction swaps the segment list
C12_GrowthMonotonic ==
  [][/\ op'.name = "put" => Size' > Size
     /\ Size' < Size => op'.name \in SwapOps]_vars

\* C13: Get returns ErrNotFound for the keys that are not in the global
\* index and for no other key: a key in the index whose segment is not
\* live or whose record cannot be read gets another error
C13_NotFoundIffAbsent ==
  \A k \in Keys : Get(k).err = "ErrNotFound" <=> k \notin DOMAIN index

\* one key is not in the index, the other is and its read fails
C13_Witness ==
  /\ \E k \in Keys : k \notin DOMAIN index /\ Get(k).err = "ErrNotFound"
  /\ \E k \in DOMAIN index : Get(k).err \in {"EOF", "corrupt", "open"}

\* C14: a Put whose write fails leaves the global index as it was, leaves
\* the local index and the size of every segment as they were, and its
\* write target, the old one or the one its rollover created, has the
\* local index and the size it had before the write
C14_FailedPutLeavesIndex ==
  [][op'.name = "put-failed" =>
       /\ index' = index
       /\ lastPut' = lastPut
       /\ \A i \in 1..Len(segments) :
             /\ segments'[i].index = segments[i].index
             /\ segments'[i].size = segments[i].size
       /\ \/ out' = out /\ Len(segments') = Len(segments)
          \/ /\ out' = Len(segments) + 1
             /\ segments'[out'].index = EmptyMap
             /\ segments'[out'].size = 0]_vars

\* a Put of a key that is in the index has failed in its write
C14_Witness ==
  /\ op.name = "put-failed" /\ op.key \in DOMAIN index
  /\ segments[out].size > 0

\* the segment files of the directory
SegmentFiles == DOMAIN disk \ {tempPath}

\* the live list is what a recovery of the directory into a new Db gives:
\* every segment file once, with an open handle, and Size() the sum of the
\* file sizes
FreshlyRecovered ==
  /\ {segments[i].filePath : i \in 1..Len(segments)} = SegmentFiles
  /\ \A i, j \in 1..Len(segments) :
        i # j => segments[i].filePath # segments[j].filePath
  /\ \A i \in 1..Len(segments) : ~segments[i].file.closed
  /\ Size = Sum([p \in SegmentFiles |-> Len(disk[p])], SegmentFiles)

\* C17: after a run of mergeSegments whose rename failed the store is as
\* a fresh recovery leaves it, and every key that Get returned before is
\* returned with the same value
C17_RenameFailureRecovers ==
  [][op'.name = "merge-renamefail" =>
       /\ FreshlyRecovered'
       /\ \A k \in Keys : Get(k).err = "nil" => Get(k)' = Get(k)]_vars

\* C18: a run of mergeSegments that meets a read error in a source file
\* returns, which releases writeMutex, and leaves the segment list, the
\* write target and the global index as they were
C18_ReadErrorAborts ==
  [][op'.name = "merge-readerr" =>
       /\ ~mergeHung'
       /\ segments' = segments /\ out' = out /\ index' = index]_vars

\* C19: no live segment is the temporary file of a compaction, and after
\* a compaction every offset of the new index is the position of a record
\* of its key in the merged file, also when an interrupted compaction has
\* left a temporary file behind
C19_TempFileIgnored ==
  /\ \A i \in 1..Len(segments) : segments[i].filePath # tempPath
  /\ op.name = "merge" =>
       \A k \in DOMAIN index :
          LET record == DecodeFromReader(disk[segments[1].filePath],
                                         index[k].offset)
          IN record.err = "nil" /\ record.key = k

\* C20: a successful Put whose record would take the write target over
\* maxSize appends a new segment, leaves the segments and the files there
\* were as they were and writes the whole record as the content of the new
\* segment's file; any other Put adds the record to the write target; and
\* no segment made by createNewSegment, which are those with an O_APPEND
\* handle, has a size above maxSize
C20_RolloverBeforeWrite ==
  [][op'.name = "put" =>
       LET data == Encode(op'.key, lastPut'[op'.key])
           new == segments'[out']
       IN /\ IF segments[out].size + Len(data) > maxSize
               THEN /\ Len(segments') = Len(segments) + 1
                    /\ out' = Len(segments')
                    /\ \A i \in 1..Len(segments) : segments'[i] = segments[i]
                    /\ \A p \in DOMAIN disk : disk'[p] = disk[p]
                    /\ new.size = Len(data)
                    /\ disk'[new.filePath] = data
               ELSE /\ Len(segments') = Len(segments)
                    /\ out' = out
                    /\ new.size = segments[out].size + Len(data)
          /\ \A i \in 1..Len(segments') :
                segments'[i].file.append => segments'[i].size <= maxSize]_vars

\* a Put has rolled over: its record is all the new write target holds
C20_Witness ==
  /\ op.name = "put" /\ out > 1
  /\ segments[out].file.append
  /\ disk[segments[out].filePath] = Encode(op.key, lastPut[op.key])
  /\ segments[out - 1].size > 0

\* the goroutines inside the sections that writeMutex guards: doPut, a
\* run of mergeSegments, the part of Close that closes the files
InCritical ==
  {g \in Goroutines :
     \/ g = "writer" /\ pc[g] \in {"rollover", "write", "muLock", "index",
                                    "muUnlock", "size", "reply"}
     \/ g \in Mergers /\ pc[g] \in {"check", "muLock", "swap", "muUnlock",
                                     "return"}
     \/ g = "close" /\ pc[g] \in {"files", "unlock"}}

\* C15: at most one goroutine is in doPut, in a run of mergeSegments or in
\* the part of Close that closes the files, and it is the holder of
\* writeMutex
C15_WriterSerialization ==
  Cardinality(InCritical) <= 1 /\ InCritical \subseteq {writeMutex}

\* doPut is at its write while Close and a compaction goroutine wait for
\* writeMutex
C15_Witness ==
  /\ pc["writer"] = "write" /\ pc["close"] = "lock"
  /\ mergePending > 0

\* the list of live segments with their sizes, as Size() reads it
TrackedSizes(segs) ==
  [i \in 1..Len(segs) |-> [id |-> segs[i].id, size |-> segs[i].size]]

\* C16: a step that changes the global index, the list of live segments,
\* the write target or the size of a segment is made by the goroutine that
\* holds db.mu for writing
C16_MutationsUnderMu ==
  [][(\/ index' # index
      \/ TrackedSizes(segments') # TrackedSizes(segments)
      \/ out' # out) => mu # "free"]_vars

\* C21: a run of mergeSegments that holds writeMutex while the segment list
\* has at most one segment changes neither the segment list, the write
\* target, the global index, nextSegID nor any file, so a trigger queued
\* behind a compaction that has swapped is a no-op
C21_OverlappingTriggersHarmless ==
  [][\A m \in Mergers :
       (pc'[m] # pc[m] /\ Len(segments) <= 1)
         => UNCHANGED <<segments, out, index, nextSegID, disk>>]_vars

\* a trigger has the mutex and tests the one segment an earlier compaction
\* left
C21_Witness ==
  \E m \in Mergers :
    /\ pc[m] = "check" /\ writeMutex = m
    /\ Len(segments) = 1 /\ ~segments[1].file.append
    /\ nextSegID = segments[1].id + 1

\* C22: a request a Get has put on db.workerPool gets one response and no
\* more, and on an open store every Get that has started returns, also
\* when more Gets are in flight than there are workers
InFlight(g) == gets[g].pc \in {"segment", "send", "wait"}

C22_ReadOffload ==
  /\ [](\A g \in Getters :
         /\ gets[g].responses <= 1
         /\ gets[g].pc = "done" /\ gets[g].filePath # NoGet.filePath
              => gets[g].responses = 1)
  /\ \A g \in Getters : InFlight(g) ~> (gets[g].pc = "done")

\* three Gets at once with one worker: one is read by the worker, one is
\* in the buffer of the channel and the third waits to send
C22_Witness ==
  /\ \E w \in Workers : work[w] # NoWork
  /\ Len(pool) = workerPoolSize
  /\ \E g \in Getters : gets[g].pc = "send"

\* C23: a Get(k) beside Puts and a compaction returns an error, or a value
\* that a Put(k, .) wrote and that is not older than the value of the last
\* Put(k) that had returned when the Get began.  The values of the Puts
\* grow with time
NotOlder(value, floor) == floor = <<>> \/ value[1] >= floor[1]

C23_ConcurrentGet ==
  \A g \in Getters :
    (gets[g].pc = "done" /\ gets[g].result.err = "nil")
      => /\ gets[g].result.value \in written[gets[g].key]
         /\ NotOlder(gets[g].result.value, gets[g].floor)

\* C26: however Close falls among the steps of Puts and Gets, no Get sends
\* on the closed db.workerPool, the writer does not run doPut on the nil
\* db.out, and a Get that waits for its response has its request with a
\* worker or in the channel, from which the workers still receive
Stranded(g) ==
  /\ gets[g].pc = "wait" /\ gets[g].responses = 0
  /\ \A w \in Workers : work[w].getter # g
  /\ \/ \A i \in 1..Len(pool) : pool[i].getter # g
     \/ \A w \in Workers : work[w] = Exited

C26_CloseRace ==
  /\ \A g \in Getters : gets[g].pc # "dead" /\ ~Stranded(g)
  /\ pc["writer"] # "dead"

\* the server findLeastBusyServer is to return on the pool p: the first in
\* pool order of the healthy servers with the fewest connections, NoServer
\* when no server is healthy
Healthy(p) == {i \in 1..Len(p) : p[i].IsHealthy}
LeastBusy(p) ==
  {i \in Healthy(p) : \A j \in Healthy(p) : p[i].ActiveConns <= p[j].ActiveConns}
FirstLeastBusy(p) ==
  IF Healthy(p) = {} THEN NoServer
  ELSE CHOOSE i \in LeastBusy(p) : \A j \in LeastBusy(p) : i <= j

\* C24: on every pool findLeastBusyServer returns the first healthy server
\* with the fewest connections among the healthy ones, and nil exactly when
\* the pool is empty or has no healthy server
C24_LeastBusySelection ==
  [][lb'.found # lb.found => lb'.found = FirstLeastBusy(lb.pool)]_vars

\* the requests that hold the server: found by findLeastBusyServer and
\* not yet released
InFlightTo(server) ==
  {h \in Handlers : /\ lb.handlers[h].server = server
                    /\ lb.handlers[h].pc \in {"count", "forward"}}

\* C25: the ActiveConns of every server is the number of requests in flight
\* to it, hence 0 when no request is in flight
C25_ConnectionAccounting ==
  \A server \in 1..Len(lb.pool) :
    lb.pool[server].ActiveConns = Cardinality(InFlightTo(server))

====
